---- MODULE Spec2Model ----
(***************************************************************************)
(* Model of the emasm assembler core                                       *)
(* (crates/emasm-common/src/assembler.rs): the instruction tree, the       *)
(* initial sizing pass, the bounded fixed-point offset resolver and the    *)
(* byte encoder.  One call of Assembler::assemble is run as the steps      *)
(*   Call (flatten + first_pass) -> Round* (optimize_labels) -> Encode     *)
(*   -> Return                                                             *)
(* by each caller; the Assembler itself holds only the opcode table.       *)
(* Assembler::assemble_with_placeholders substitutes the placeholder       *)
(* values first and then runs the same steps on the substituted tree.      *)
(***************************************************************************)
EXTENDS Integers, Sequences, FiniteSets, TLC

VARIABLES
    callers,      \* the callers that use the Assembler in this behaviour
    call,         \* per caller: the entry point called and its arguments
    pc,           \* per caller: "idle", "optimize", "encode", "done" (assemble
                  \* returned), "failed" (substitution error returned
                  \* before assemble ran), "panicked"
    tree,         \* per caller: the flattened element sequence of the call
    labels,       \* per caller: HashMap<String, LabelInfo> of the call
    prev_labels,  \* per caller: the clone taken at the top of the last round
    bytes_map,    \* per caller: HashMap<String, BytesInfo> of the call
    rounds,       \* per caller: re-walk rounds of optimize_labels done so far
    result        \* per caller: the Result<Vec<u8>, AssemblerError> returned

vars == <<callers, call, pc, tree, labels, prev_labels, bytes_map, rounds, result>>

(***************************************************************************)
(* Bounds of the explored input space.                                     *)
(***************************************************************************)
MaxNodes == 3      \* elements (nested ones included) of a generated tree
MaxBody == 2       \* elements in the body of a scenario block
MaxValues == 2     \* placeholder values passed to assemble_with_placeholders
MaxDigit == 3      \* largest small byte value of a rendered number

(***************************************************************************)
(* Program constants.                                                      *)
(***************************************************************************)
\* variant: the resolver allows itself one more round
MAX_ITERATIONS_one_more == 100 + 1

MAX_ITERATIONS == 100
PUSH1 == 96        \* Opcode::PUSH1.0, 0x60
JUMPDEST == 91     \* Opcode::JUMPDEST.0, 0x5b
UsizeBytes == 8    \* usize::to_be_bytes yields 8 bytes on a 64-bit target
MaxPushBytes == 32 \* the .min(32) cap of push widths

CallerIds == {1, 2}

(***************************************************************************)
(* AsmElement (types.rs).  Every variant is a record of the same shape.    *)
(***************************************************************************)
Opcode(n) == [kind |-> "Opcode", name |-> n, data |-> <<>>, inner |-> <<>>, idx |-> 0]
Literal(d) == [kind |-> "Literal", name |-> "", data |-> d, inner |-> <<>>, idx |-> 0]
Label(n) == [kind |-> "Label", name |-> n, data |-> <<>>, inner |-> <<>>, idx |-> 0]
Segment(n, in) == [kind |-> "Segment", name |-> n, data |-> <<>>, inner |-> in, idx |-> 0]
BytesSegment(n, d) == [kind |-> "BytesSegment", name |-> n, data |-> d, inner |-> <<>>, idx |-> 0]
BytesPtr(n) == [kind |-> "BytesPtr", name |-> n, data |-> <<>>, inner |-> <<>>, idx |-> 0]
BytesSize(n) == [kind |-> "BytesSize", name |-> n, data |-> <<>>, inner |-> <<>>, idx |-> 0]
Placeholder(i) == [kind |-> "Placeholder", name |-> "", data |-> <<>>, inner |-> <<>>, idx |-> i]

(***************************************************************************)
(* AssemblerError (types.rs) and the Result of assemble.                   *)
(***************************************************************************)
NoError == [kind |-> "None", name |-> "", idx |-> 0]
UnknownOpcode(n) == [kind |-> "UnknownOpcode", name |-> n, idx |-> 0]
LabelNotFound(n) == [kind |-> "LabelNotFound", name |-> n, idx |-> 0]
IntegerOverflow == [kind |-> "IntegerOverflow", name |-> "", idx |-> 0]
CircularDependency == [kind |-> "CircularDependency", name |-> "", idx |-> 0]
InvalidPlaceholder(i) == [kind |-> "InvalidPlaceholder", name |-> "", idx |-> i]

Ok(b) == [err |-> NoError, bytes |-> b]
Err(e) == [err |-> e, bytes |-> <<>>]
NoResult == [err |-> [kind |-> "Pending", name |-> "", idx |-> 0], bytes |-> <<>>]
IsOk(r) == r.err.kind = "None"

(***************************************************************************)
(* The opcode table (opcodes::opcode_map): mnemonic -> byte.               *)
(***************************************************************************)
opcode_map ==
    [m \in {"add", "sub", "iszero", "pop", "mstore", "jump", "jumpi",
            "dup1", "return"} |->
        CASE m = "add" -> 1
          [] m = "sub" -> 3
          [] m = "iszero" -> 21
          [] m = "pop" -> 80
          [] m = "mstore" -> 82
          [] m = "jump" -> 86
          [] m = "jumpi" -> 87
          [] m = "dup1" -> 128
          [] m = "return" -> 243]

(***************************************************************************)
(* HashMap helpers.                                                        *)
(***************************************************************************)
EmptyMap == [k \in {} |-> 0]
Has(m, k) == k \in DOMAIN m
Insert(m, k, v) == [x \in (DOMAIN m) \cup {k} |-> IF x = k THEN v ELSE m[x]]

LabelInfo(o, s) == [offset |-> o, size_estimate |-> s]

\* variant: the size recorded for a region is the offset of its end
BytesInfo_end(o, s) == [offset |-> o, size |-> o + s]

BytesInfo(o, s) == [offset |-> o, size |-> s]

Min(a, b) == IF a < b THEN a ELSE b
Max(a, b) == IF a > b THEN a ELSE b

(***************************************************************************)
(* Byte-level helpers.                                                     *)
(***************************************************************************)
\* data.iter().skip_while(|&&b| b == 0)
RECURSIVE skip_zeros(_)
skip_zeros(data) ==
    IF data = <<>> THEN <<>>
    ELSE IF Head(data) = 0 THEN skip_zeros(Tail(data)) ELSE data

\* usize::ilog2
RECURSIVE ilog2(_)
ilog2(v) == IF v < 2 THEN 0 ELSE 1 + ilog2(v \div 2)

\* the n low-order bytes of value, big-endian (usize::to_be_bytes for n = 8)
RECURSIVE to_be_bytes(_, _)
to_be_bytes(value, n) ==
    IF n = 0 THEN <<>>
    ELSE Append(to_be_bytes(value \div 256, n - 1), value % 256)

\* variant: every reference is taken to need a two-byte payload
calculate_push_size_wide(value) == 1 + 1

\* variant: every reference is taken to need the widest payload
calculate_push_size_full(value) == MaxPushBytes

\* Assembler::calculate_push_size
calculate_push_size(value) ==
    IF value = 0 THEN 1
    ELSE Min((ilog2(value) \div 8) + 1, MaxPushBytes)

\* variant: a Block is replaced by its children
RECURSIVE flatten_bodies(_)
flatten_bodies(elements) ==
    IF elements = <<>> THEN <<>>
    ELSE LET elem == Head(elements)
             out == IF elem.kind = "Segment"
                    THEN flatten_bodies(elem.inner)
                    ELSE <<elem>>
         IN out \o flatten_bodies(Tail(elements))

\* Assembler::flatten: rebuilds the tree, element by element.  The map over
\* a sequence is the map over its first half followed by the map over its
\* second half, which keeps the evaluation of a long tree shallow.
RECURSIVE flatten(_)
flatten(elements) ==
    IF elements = <<>> THEN <<>>
    ELSE IF Len(elements) = 1
    THEN LET elem == Head(elements)
         IN IF elem.kind = "Segment"
            THEN <<Segment(elem.name, flatten(elem.inner))>>
            ELSE <<elem>>
    ELSE LET half == Len(elements) \div 2
         IN flatten(SubSeq(elements, 1, half))
            \o flatten(SubSeq(elements, half + 1, Len(elements)))

(***************************************************************************)
(* Placeholder values (encodable.rs) and their substitution.               *)
(***************************************************************************)
\* the values a placeholder can be bound to: Box<dyn EVMEncodable>
U8(v) == [ty |-> "u8", num |-> v, bytes |-> <<>>]
U16(v) == [ty |-> "u16", num |-> v, bytes |-> <<>>]
U32(v) == [ty |-> "u32", num |-> v, bytes |-> <<>>]
U64(v) == [ty |-> "u64", num |-> v, bytes |-> <<>>]
U128(v) == [ty |-> "u128", num |-> v, bytes |-> <<>>]
U256(v) == [ty |-> "U256", num |-> v, bytes |-> <<>>]
Address(b) == [ty |-> "Address", num |-> 0, bytes |-> b]
FixedBytes(b) == [ty |-> "FixedBytes", num |-> 0, bytes |-> b]

\* the number of bytes to_be_bytes yields for each numeric type
be_width ==
    [t \in {"u16", "u32", "u64", "u128", "U256"} |->
        CASE t = "u16" -> 2
          [] t = "u32" -> 4
          [] t = "u64" -> 8
          [] t = "u128" -> 16
          [] t = "U256" -> 32]

\* variant: a number is rendered as all the bytes of its type
to_evm_bytes_untrimmed(v) ==
    CASE v.ty = "u8" -> <<v.num>>
      [] v.ty \in DOMAIN be_width -> to_be_bytes(v.num, be_width[v.ty])
      [] v.ty \in {"Address", "FixedBytes"} -> v.bytes

\* EVMEncodable::to_evm_bytes
to_evm_bytes(v) ==
    CASE v.ty = "u8" -> <<v.num>>
      [] v.ty \in DOMAIN be_width ->
            LET trimmed == skip_zeros(to_be_bytes(v.num, be_width[v.ty]))
            IN IF v.num = 0 THEN trimmed \o <<0>> ELSE trimmed
      [] v.ty \in {"Address", "FixedBytes"} -> v.bytes

\* the outcomes of substitute_placeholders: the new tree, an error value,
\* or the panic of line 52
SubstOk(elements) == [kind |-> "Ok", elements |-> elements, err |-> NoError]
SubstErr(e) == [kind |-> "Err", elements |-> <<>>, err |-> e]
SubstPanic == [kind |-> "Panic", elements |-> <<>>, err |-> NoError]

\* Assembler::substitute_placeholders.  values.get(idx) is 0-based.  For a
\* Segment the values handed to the recursive call are collected from
\* values.iter().map(|_v| panic!(..)): empty when values is empty, a panic
\* on the first value otherwise.
RECURSIVE substitute_placeholders(_, _)
substitute_placeholders(elements, values) ==
    IF elements = <<>> THEN SubstOk(<<>>)
    ELSE LET elem == Head(elements)
             this ==
                CASE elem.kind = "Placeholder" ->
                        IF elem.idx + 1 \in DOMAIN values
                        THEN SubstOk(<<Literal(to_evm_bytes(values[elem.idx + 1]))>>)
                        ELSE SubstErr(InvalidPlaceholder(elem.idx))
                  [] elem.kind = "Segment" ->
                        IF values # <<>> THEN SubstPanic
                        ELSE LET in == substitute_placeholders(elem.inner, <<>>)
                             IN IF in.kind = "Ok"
                                THEN SubstOk(<<Segment(elem.name, in.elements)>>)
                                ELSE in
                  [] OTHER -> SubstOk(<<elem>>)
         IN IF this.kind # "Ok" THEN this
            ELSE LET rest == substitute_placeholders(Tail(elements), values)
                 IN IF rest.kind = "Ok"
                    THEN SubstOk(this.elements \o rest.elements)
                    ELSE rest

(***************************************************************************)
(* Step 1: the initial pass.                                               *)
(***************************************************************************)
\* Assembler::estimate_size
RECURSIVE estimate_size(_, _, _)
estimate_size(elements, lbls, bmap) ==
    IF elements = <<>> THEN 0
    ELSE LET elem == Head(elements)
             size ==
                CASE elem.kind = "Segment" ->
                        1 + estimate_size(elem.inner, lbls, bmap)
                  [] elem.kind = "Opcode" -> 1
                  [] elem.kind = "Literal" -> 1 + Len(elem.data)
                  [] elem.kind = "Label" ->
                        IF Has(lbls, elem.name)
                        THEN 1 + lbls[elem.name].size_estimate
                        ELSE 3
                  [] elem.kind \in {"BytesPtr", "BytesSize"} -> 3
                  [] elem.kind = "BytesSegment" -> Len(elem.data)
                  [] elem.kind = "Placeholder" -> 3
         IN size + estimate_size(Tail(elements), lbls, bmap)

\* the push_len of a Literal in first_pass
first_pass_push_len(data) ==
    IF data = <<>> \/ (Len(data) = 1 /\ data[1] = 0)
    THEN 2
    ELSE 1 + Max(Len(skip_zeros(data)), 1)

\* the locals of a walk over the top-level elements after some of them
Walked(lbls, bmap, offset) ==
    [labels |-> lbls, bytes_map |-> bmap, offset |-> offset]

\* the loop of Assembler::first_pass over the top-level elements, from the
\* maps and the offset it is entered with.  One element is the loop body;
\* the loop over a longer sequence is the loop over its first half followed,
\* from the locals that leaves, by the loop over its second half.  No
\* element has a negative size, so the offset never decreases: the test on
\* it always holds, and has the first half evaluated before the second is
\* entered.
RECURSIVE first_pass_loop(_, _, _, _)
first_pass_loop(elements, lbls, bmap, offset) ==
    IF elements = <<>> THEN Walked(lbls, bmap, offset)
    ELSE IF Len(elements) = 1
    THEN LET elem == Head(elements)
         IN CASE elem.kind = "Segment" ->
                    LET l2 == Insert(lbls, elem.name, LabelInfo(offset, 2))
                    IN Walked(l2, bmap,
                           offset + 1 + estimate_size(elem.inner, l2, bmap))
              [] elem.kind = "BytesSegment" ->
                    Walked(lbls,
                        Insert(bmap, elem.name, BytesInfo(offset, Len(elem.data))),
                        offset + Len(elem.data))
              [] elem.kind = "Opcode" ->
                    Walked(lbls, bmap, offset + 1)
              [] elem.kind = "Literal" ->
                    Walked(lbls, bmap, offset + first_pass_push_len(elem.data))
              [] elem.kind \in {"Label", "BytesPtr", "BytesSize", "Placeholder"} ->
                    Walked(lbls, bmap, offset + 2)
    ELSE LET half == Len(elements) \div 2
             first == first_pass_loop(SubSeq(elements, 1, half),
                                      lbls, bmap, offset)
         IN IF first.offset >= offset
            THEN first_pass_loop(SubSeq(elements, half + 1, Len(elements)),
                                 first.labels, first.bytes_map, first.offset)
            ELSE first

\* variant: the maps are kept in the Assembler and shared by its callers
first_pass_shared(elements) ==
    LET end == first_pass_loop(elements, labels[1], bytes_map[1], 0)
    IN [labels |-> end.labels, bytes_map |-> end.bytes_map]

\* variant: Blocks and RawData regions are recorded in one map
RECURSIVE one_namespace_loop(_, _, _)
one_namespace_loop(elements, names, offset) ==
    IF elements = <<>> THEN [labels |-> names, bytes_map |-> names]
    ELSE LET elem == Head(elements)
             rest == Tail(elements)
         IN CASE elem.kind = "Segment" ->
                    LET n2 == Insert(names, elem.name,
                                  [offset |-> offset, size |-> 0,
                                   size_estimate |-> 2])
                    IN one_namespace_loop(rest, n2,
                           offset + 1 + estimate_size(elem.inner, n2, n2))
              [] elem.kind = "BytesSegment" ->
                    one_namespace_loop(rest,
                        Insert(names, elem.name,
                            [offset |-> offset, size |-> Len(elem.data),
                             size_estimate |-> 2]),
                        offset + Len(elem.data))
              [] elem.kind = "Opcode" ->
                    one_namespace_loop(rest, names, offset + 1)
              [] elem.kind = "Literal" ->
                    one_namespace_loop(rest, names,
                        offset + first_pass_push_len(elem.data))
              [] OTHER -> one_namespace_loop(rest, names, offset + 2)

first_pass_one_namespace(elements) == one_namespace_loop(elements, EmptyMap, 0)

\* Assembler::first_pass: both maps start empty, and are what it returns
first_pass(elements) ==
    LET end == first_pass_loop(elements, EmptyMap, EmptyMap, 0)
    IN [labels |-> end.labels, bytes_map |-> end.bytes_map]

(***************************************************************************)
(* Step 2: one re-walk of the resolver.                                    *)
(***************************************************************************)
\* Assembler::calculate_segment_size
RECURSIVE calculate_segment_size(_, _, _)
calculate_segment_size(elements, lbls, bmap) ==
    IF elements = <<>> THEN 0
    ELSE LET elem == Head(elements)
             size ==
                CASE elem.kind = "Segment" ->
                        1 + calculate_segment_size(elem.inner, lbls, bmap)
                  [] elem.kind = "Opcode" -> 1
                  [] elem.kind = "Literal" -> 1 + Len(elem.data)
                  [] elem.kind = "Label" ->
                        IF Has(lbls, elem.name)
                        THEN 1 + lbls[elem.name].size_estimate
                        ELSE 3
                  [] elem.kind = "BytesPtr" ->
                        IF Has(bmap, elem.name)
                        THEN 1 + calculate_push_size(bmap[elem.name].offset)
                        ELSE 3
                  [] elem.kind = "BytesSize" ->
                        IF Has(bmap, elem.name)
                        THEN 1 + calculate_push_size(bmap[elem.name].size)
                        ELSE 3
                  [] elem.kind = "BytesSegment" -> Len(elem.data)
                  [] elem.kind = "Placeholder" -> 3
         IN size + calculate_segment_size(Tail(elements), lbls, bmap)

\* variant: a re-walk moves the Blocks and keeps the widths it was given
RECURSIVE recalculate_loop_stale_width(_, _, _, _)
recalculate_loop_stale_width(elements, lbls, bmap, offset) ==
    IF elements = <<>> THEN Walked(lbls, bmap, offset)
    ELSE LET elem == Head(elements)
             rest == Tail(elements)
             l2 == IF elem.kind = "Segment" /\ Has(lbls, elem.name)
                   THEN Insert(lbls, elem.name,
                            LabelInfo(offset, lbls[elem.name].size_estimate))
                   ELSE lbls
             size ==
                CASE elem.kind = "Segment" ->
                        1 + calculate_segment_size(elem.inner, l2, bmap)
                  [] elem.kind = "BytesSegment" -> Len(elem.data)
                  [] elem.kind = "Opcode" -> 1
                  [] elem.kind = "Literal" -> 1 + Len(elem.data)
                  [] elem.kind = "Label" ->
                        IF Has(lbls, elem.name)
                        THEN 1 + lbls[elem.name].size_estimate
                        ELSE 3
                  [] OTHER -> 3
         IN recalculate_loop_stale_width(rest, l2, bmap, offset + size)

\* the loop of Assembler::recalculate_offsets over the top-level elements,
\* from the label map and the offset it is entered with.  One element is the
\* loop body; the loop over a longer sequence is the loop over its first
\* half followed, from the locals that leaves, by the loop over its second
\* half.  No element has a negative size, so the offset never decreases:
\* the test on it always holds, and has the first half evaluated before the
\* second is entered.
RECURSIVE recalculate_loop(_, _, _, _)
recalculate_loop(elements, lbls, bmap, offset) ==
    IF elements = <<>> THEN Walked(lbls, bmap, offset)
    ELSE IF Len(elements) = 1
    THEN LET elem == Head(elements)
         IN CASE elem.kind = "Segment" ->
                    LET l2 == IF Has(lbls, elem.name)
                              THEN Insert(lbls, elem.name,
                                       LabelInfo(offset, calculate_push_size(offset)))
                              ELSE lbls
                    IN Walked(l2, bmap,
                           offset + 1 + calculate_segment_size(elem.inner, l2, bmap))
              [] elem.kind = "BytesSegment" ->
                    Walked(lbls, bmap, offset + Len(elem.data))
              [] elem.kind = "Opcode" ->
                    Walked(lbls, bmap, offset + 1)
              [] elem.kind = "Literal" ->
                    Walked(lbls, bmap, offset + 1 + Len(elem.data))
              [] elem.kind = "Label" ->
                    Walked(lbls, bmap,
                        offset + (IF Has(lbls, elem.name)
                                  THEN 1 + lbls[elem.name].size_estimate
                                  ELSE 3))
              [] elem.kind \in {"BytesPtr", "BytesSize", "Placeholder"} ->
                    Walked(lbls, bmap, offset + 3)
    ELSE LET half == Len(elements) \div 2
             first == recalculate_loop(SubSeq(elements, 1, half),
                                       lbls, bmap, offset)
         IN IF first.offset >= offset
            THEN recalculate_loop(SubSeq(elements, half + 1, Len(elements)),
                                  first.labels, bmap, first.offset)
            ELSE first

\* a sequence back to front
Reverse(s) == [i \in 1..Len(s) |-> s[Len(s) + 1 - i]]

\* variant: the re-walk visits the top-level elements from the last to the
\* first
recalculate_offsets_reversed(elements, lbls, bmap) ==
    recalculate_loop(Reverse(elements), lbls, bmap, 0).labels

\* Assembler::recalculate_offsets: the label map the loop leaves
recalculate_offsets(elements, lbls, bmap) ==
    recalculate_loop(elements, lbls, bmap, 0).labels

\* variant: the resolver stops after its first re-walk
offsets_unchanged_always(prev, new) == TRUE

\* the convergence test of optimize_labels (lines 167-169)
offsets_unchanged(prev, new) ==
    \A k \in DOMAIN prev : Has(new, k) /\ new[k].offset = prev[k].offset

(***************************************************************************)
(* The encoder.                                                            *)
(***************************************************************************)
\* variant: the literal is pushed as given, leading zero bytes included
encode_push_untrimmed(data) ==
    IF data = <<>> THEN <<PUSH1, 0>>
    ELSE LET len == Min(Len(data), MaxPushBytes)
         IN <<PUSH1 - 1 + len>> \o SubSeq(data, 1, len)

\* variant: a zero literal is pushed with an empty payload
encode_push_zero_length(data) ==
    LET trimmed == skip_zeros(data)
        len == Min(Len(trimmed), MaxPushBytes)
    IN <<PUSH1 - 1 + len>> \o SubSeq(trimmed, 1, len)

\* Assembler::encode_push: the bytes pushed onto bytecode
encode_push(data) ==
    LET trimmed == skip_zeros(data)
    IN IF trimmed = <<>> THEN <<PUSH1, 0>>
       ELSE LET len == Min(Len(trimmed), MaxPushBytes)
            IN <<PUSH1 - 1 + len>> \o SubSeq(trimmed, 1, len)

\* variant: the value is pushed as all the bytes of the usize
encode_push_value_untrimmed(value) ==
    <<PUSH1 - 1 + UsizeBytes>> \o to_be_bytes(value, UsizeBytes)

\* Assembler::encode_push_value: the bytes pushed onto bytecode
encode_push_value(value) ==
    IF value = 0 THEN <<PUSH1, 0>>
    ELSE LET trimmed == skip_zeros(to_be_bytes(value, UsizeBytes))
             len == Min(Len(trimmed), MaxPushBytes)
         IN <<PUSH1 - 1 + len>> \o SubSeq(trimmed, 1, len)

\* variant: an unknown mnemonic is emitted as the invalid opcode 0xfe
encode_opcode_lenient(name) ==
    IF name \in DOMAIN opcode_map
    THEN Ok(<<opcode_map[name]>>)
    ELSE Ok(<<254>>)

\* Assembler::encode, the Opcode arm (lines 282-286)
encode_opcode(name) ==
    IF name \in DOMAIN opcode_map
    THEN Ok(<<opcode_map[name]>>)
    ELSE Err(UnknownOpcode(name))

\* variant: an undefined name is pushed as offset 0
encode_label_lenient(lbls, name) ==
    IF Has(lbls, name)
    THEN Ok(encode_push_value(lbls[name].offset))
    ELSE Ok(encode_push_value(0))

\* Assembler::encode, the Label arm (lines 294-298)
encode_label(lbls, name) ==
    IF Has(lbls, name)
    THEN Ok(encode_push_value(lbls[name].offset))
    ELSE Err(LabelNotFound(name))

\* variant: on a failure the bytes encoded so far are returned with the error
RECURSIVE encode_partial(_, _, _)
encode_partial(elements, lbls, bmap) ==
    IF elements = <<>> THEN Ok(<<>>)
    ELSE LET elem == Head(elements)
             this ==
                CASE elem.kind = "Opcode" -> encode_opcode(elem.name)
                  [] elem.kind = "Literal" -> Ok(encode_push(elem.data))
                  [] elem.kind = "Segment" ->
                        LET in == encode_partial(elem.inner, lbls, bmap)
                        IN [err |-> in.err, bytes |-> <<JUMPDEST>> \o in.bytes]
                  [] elem.kind = "Label" -> encode_label(lbls, elem.name)
                  [] elem.kind = "BytesSegment" -> Ok(elem.data)
                  [] elem.kind = "BytesPtr" ->
                        IF Has(bmap, elem.name)
                        THEN Ok(encode_push_value(bmap[elem.name].offset))
                        ELSE Err(LabelNotFound(elem.name))
                  [] elem.kind = "BytesSize" ->
                        IF Has(bmap, elem.name)
                        THEN Ok(encode_push_value(bmap[elem.name].size))
                        ELSE Err(LabelNotFound(elem.name))
                  [] elem.kind = "Placeholder" -> Err(InvalidPlaceholder(0))
         IN IF ~IsOk(this) THEN this
            ELSE LET rest == encode_partial(Tail(elements), lbls, bmap)
                 IN [err |-> rest.err, bytes |-> this.bytes \o rest.bytes]

\* variant: inside its own body a Block is known by the offset 0
RECURSIVE encode_block_relative(_, _, _)
encode_block_relative(elements, lbls, bmap) ==
    IF elements = <<>> THEN Ok(<<>>)
    ELSE LET elem == Head(elements)
             this ==
                CASE elem.kind = "Opcode" -> encode_opcode(elem.name)
                  [] elem.kind = "Literal" -> Ok(encode_push(elem.data))
                  [] elem.kind = "Segment" ->
                        LET own == IF Has(lbls, elem.name)
                                   THEN Insert(lbls, elem.name, LabelInfo(0, 1))
                                   ELSE lbls
                            in == encode_block_relative(elem.inner, own, bmap)
                        IN IF IsOk(in) THEN Ok(<<JUMPDEST>> \o in.bytes) ELSE in
                  [] elem.kind = "Label" -> encode_label(lbls, elem.name)
                  [] elem.kind = "BytesSegment" -> Ok(elem.data)
                  [] elem.kind = "BytesPtr" ->
                        IF Has(bmap, elem.name)
                        THEN Ok(encode_push_value(bmap[elem.name].offset))
                        ELSE Err(LabelNotFound(elem.name))
                  [] elem.kind = "BytesSize" ->
                        IF Has(bmap, elem.name)
                        THEN Ok(encode_push_value(bmap[elem.name].size))
                        ELSE Err(LabelNotFound(elem.name))
                  [] elem.kind = "Placeholder" -> Err(InvalidPlaceholder(0))
         IN IF ~IsOk(this) THEN this
            ELSE LET rest == encode_block_relative(Tail(elements), lbls, bmap)
                 IN IF IsOk(rest) THEN Ok(this.bytes \o rest.bytes) ELSE rest

\* Assembler::encode: the first failing element in walk order aborts the
\* call with its error, otherwise the emitted bytes are concatenated.  One
\* element is the loop body; the loop over a longer sequence is the loop
\* over its first half followed, unless that failed, by the loop over its
\* second half.
RECURSIVE encode(_, _, _)
encode(elements, lbls, bmap) ==
    IF elements = <<>> THEN Ok(<<>>)
    ELSE IF Len(elements) = 1
    THEN LET elem == Head(elements)
         IN CASE elem.kind = "Opcode" -> encode_opcode(elem.name)
              [] elem.kind = "Literal" -> Ok(encode_push(elem.data))
              [] elem.kind = "Segment" ->
                    LET in == encode(elem.inner, lbls, bmap)
                    IN IF IsOk(in) THEN Ok(<<JUMPDEST>> \o in.bytes) ELSE in
              [] elem.kind = "Label" -> encode_label(lbls, elem.name)
              [] elem.kind = "BytesSegment" -> Ok(elem.data)
              [] elem.kind = "BytesPtr" ->
                    IF Has(bmap, elem.name)
                    THEN Ok(encode_push_value(bmap[elem.name].offset))
                    ELSE Err(LabelNotFound(elem.name))
              [] elem.kind = "BytesSize" ->
                    IF Has(bmap, elem.name)
                    THEN Ok(encode_push_value(bmap[elem.name].size))
                    ELSE Err(LabelNotFound(elem.name))
              [] elem.kind = "Placeholder" -> Err(InvalidPlaceholder(0))
    ELSE LET half == Len(elements) \div 2
             first == encode(SubSeq(elements, 1, half), lbls, bmap)
         IN IF ~IsOk(first) THEN first
            ELSE LET rest == encode(SubSeq(elements, half + 1, Len(elements)),
                                    lbls, bmap)
                 IN IF IsOk(rest) THEN Ok(first.bytes \o rest.bytes) ELSE rest

(***************************************************************************)
(* A whole call as one function, for comparing two calls.                  *)
(***************************************************************************)
\* Assembler::optimize_labels, from round number iteration on: the label
\* map handed to the encoder, or no map after MAX_ITERATIONS rounds; with
\* it the number of rounds run and the map the last round started from
RECURSIVE optimize_labels(_, _, _, _)
optimize_labels(lbls, bmap, elements, iteration) ==
    LET new == recalculate_offsets(elements, lbls, bmap)
    IN IF offsets_unchanged(lbls, new)
       THEN [converged |-> TRUE, labels |-> new,
             rounds |-> iteration + 1, prev |-> lbls]
       ELSE IF iteration + 1 >= MAX_ITERATIONS
            THEN [converged |-> FALSE, labels |-> new,
                  rounds |-> iteration + 1, prev |-> lbls]
            ELSE optimize_labels(new, bmap, elements, iteration + 1)

\* Assembler::assemble
assemble(elements) ==
    LET flattened == flatten(elements)
        fp == first_pass(flattened)
        optimized == optimize_labels(fp.labels, fp.bytes_map, flattened, 0)
    IN IF optimized.converged
       THEN encode(flattened, optimized.labels, fp.bytes_map)
       ELSE Err(CircularDependency)

(***************************************************************************)
(* The input space: every tree of at most MaxNodes elements over a small   *)
(* alphabet, the scenario trees of the specification, and the trees of     *)
(* fewer than MaxNodes elements placed behind a 254-byte raw-data region,  *)
(* where Block offsets cross the one-byte/two-byte push threshold at 256.  *)
(***************************************************************************)
BlockNames == {"a", "b"}

Atoms ==
    { Opcode("jump"), Opcode("bogus"),
      Literal(<<>>), Literal(<<1>>), Literal(<<0, 7>>),
      Label("a"), Label("b"),
      BytesPtr("d"), BytesSize("d"), BytesSegment("d", <<202, 254>>),
      Placeholder(1) }

\* the trees of exactly n elements, nested elements included
RECURSIVE Forests(_)
Forests(n) ==
    IF n = 0 THEN {<<>>}
    ELSE {<<a>> \o r : a \in Atoms, r \in Forests(n - 1)}
         \cup UNION { {<<Segment(nm, in)>> \o r :
                          nm \in BlockNames, in \in Forests(j),
                          r \in Forests(n - 1 - j)} : j \in 0..(n - 1) }

BodyAtoms ==
    { Opcode("add"), Opcode("jump"),
      Literal(<<>>), Literal(<<0>>), Literal(<<1>>), Literal(<<0, 7>>),
      Literal(<<1, 0>>), Literal(<<0, 0>>) }

RECURSIVE Bodies(_)
Bodies(n) ==
    IF n = 0 THEN {<<>>}
    ELSE {<<>>} \cup {<<a>> \o r : a \in BodyAtoms, r \in Bodies(n - 1)}

\* Scenario A as the front-end builds it: a literal is stripped of its
\* leading zero bytes, so the literal 0 is the empty byte string
ScenarioA ==
    << Literal(<<1>>), Literal(<<2>>), Opcode("add"), Literal(<<>>),
       Opcode("mstore"), Literal(<<32>>), Literal(<<>>), Opcode("return") >>

ScenarioB(body) == << Label("a"), Opcode("jump"), Segment("a", body) >>

BigBlob == BytesSegment("e", [i \in 1..254 |-> 238])

\* the scenario trees of the specification
ScenarioTrees ==
    {ScenarioA} \cup Bodies(MaxBody)
    \cup {ScenarioB(body) : body \in Bodies(MaxBody)}

\* Scenario C: Blocks nested three levels deep, each Block referenced by
\* name from the level that holds it (the tree of
\* test_deeply_nested_segments, written with AsmElement)
ScenarioC ==
    << Literal(<<>>), Label("outer"), Opcode("jump"),
       Segment("outer",
          << Literal(<<1>>), Label("inner1"), Opcode("jump"),
             Segment("inner1",
                << Literal(<<2>>), Label("inner2"), Opcode("jump"),
                   Segment("inner2",
                      << Literal(<<3>>), Opcode("add"),
                         Literal(<<>>), Opcode("mstore") >>) >>) >>) >>

\* three nested Blocks without references, with one body at every level
ThreeLevels(body) ==
    << Segment("a", body \o
          << Segment("b", body \o << Segment("c", body) >>) >>) >>

\* Scenario E: a loop Block referenced before the Block and from inside
\* its own body, followed by the Block the loop leaves to
ScenarioE(body) ==
    << Label("loop"), Opcode("jump"),
       Segment("loop", body \o << Label("loop"), Opcode("jump") >>),
       Segment("done", << Opcode("pop") >>) >>

\* the body of the loop of test_self_referential_label before its closing
\* self-reference
LoopBody ==
    << Opcode("dup1"), Opcode("iszero"), Label("done"), Opcode("jumpi"),
       Literal(<<1>>), Opcode("sub") >>

NestedTrees == {ScenarioC} \cup {ThreeLevels(body) : body \in Bodies(MaxBody)}

LoopBodies ==
    {LoopBody} \cup Bodies(MaxBody)
    \cup {<<Label("done"), Opcode("jumpi")>> \o body : body \in Bodies(MaxBody)}

LoopTrees ==
    {ScenarioE(body) : body \in LoopBodies}
    \cup {<<BigBlob>> \o ScenarioE(body) : body \in LoopBodies}

\* literals at and beyond the widest push: 32 bytes, 33 bytes, and 33
\* bytes behind a leading zero byte
WideBytes(n) == [i \in 1..n |-> i]

WideTrees ==
    { << Literal(WideBytes(MaxPushBytes)) >>,
      << Literal(WideBytes(MaxPushBytes + 1)) >>,
      << Literal(<<0>> \o WideBytes(MaxPushBytes + 1)) >>,
      << Opcode("add"), Segment("a", << Literal(WideBytes(MaxPushBytes + 1)) >>) >> }

\* a Block and a RawData region called by one name, and the references to
\* that name: the flat trees of at most n of these elements
NamespaceAtoms ==
    { Segment("n", <<>>), BytesSegment("n", <<202, 254>>),
      Label("n"), BytesPtr("n"), BytesSize("n") }

RECURSIVE NamespaceForests(_)
NamespaceForests(n) ==
    IF n = 0 THEN {<<>>}
    ELSE {<<>>} \cup {<<a>> \o r : a \in NamespaceAtoms,
                                   r \in NamespaceForests(n - 1)}

NamespaceTrees == NamespaceForests(MaxBody + 1)

\* the input space of a single caller, as a sequence of families of trees
TreeFamilies ==
    [k \in 1..(MaxNodes + 1) |-> Forests(k - 1)]
    \o <<ScenarioTrees>>
    \o [k \in 1..MaxNodes |-> {<<BigBlob>> \o t : t \in Forests(k - 1)}]
    \o <<NestedTrees, LoopTrees, WideTrees, NamespaceTrees>>

\* the trees assembled when two callers share the Assembler
ConcTrees ==
    Forests(0) \cup Forests(1)
    \cup { ScenarioB(<<>>), <<Segment("a", <<>>), Label("a")>>,
           <<Literal(<<>>), Segment("a", <<Label("a")>>)>> }

Families == IF callers = {1} THEN TreeFamilies ELSE <<ConcTrees>>

\* the trees handed to assemble_with_placeholders
PlaceholderAtoms == { Placeholder(0), Placeholder(1), Opcode("add") }

RECURSIVE PlaceholderForests(_)
PlaceholderForests(n) ==
    IF n = 0 THEN {<<>>}
    ELSE {<<a>> \o r : a \in PlaceholderAtoms, r \in PlaceholderForests(n - 1)}
         \cup UNION { {<<Segment("a", in)>> \o r :
                          in \in PlaceholderForests(j),
                          r \in PlaceholderForests(n - 1 - j)} : j \in 0..(n - 1) }

PlaceholderFamilies ==
    IF callers = {1}
    THEN [k \in 1..(MaxBody + 1) |-> PlaceholderForests(k - 1)]
    ELSE << { <<Placeholder(0)>>, <<Segment("a", <<>>)>> } >>

\* the values handed to assemble_with_placeholders: a one-byte number, a
\* two-byte number, an address with leading zero bytes and one without
LowAddress == Address([i \in 1..20 |-> IF i = 20 THEN 1 ELSE 0])
HighAddress == Address([i \in 1..20 |-> 170])

Values == { U8(99), U64(258), LowAddress, HighAddress }

ValueLists ==
    IF callers = {1}
    THEN UNION { [1..n -> Values] : n \in 0..MaxValues }
    ELSE { <<>>, <<U8(99)>> }

(***************************************************************************)
(* The state machine.                                                      *)
(***************************************************************************)
Idle == [c \in CallerIds |-> "idle"]

NoCall == [api |-> "none", elements |-> <<>>, values |-> <<>>]

InitLocals ==
    /\ pc = Idle
    /\ call = [c \in CallerIds |-> NoCall]
    /\ tree = [c \in CallerIds |-> <<>>]
    /\ labels = [c \in CallerIds |-> EmptyMap]
    /\ prev_labels = [c \in CallerIds |-> EmptyMap]
    /\ bytes_map = [c \in CallerIds |-> EmptyMap]
    /\ rounds = [c \in CallerIds |-> 0]
    /\ result = [c \in CallerIds |-> NoResult]

\* one caller
Init == callers = {1} /\ InitLocals

\* two callers on the same Assembler
InitConc == callers = {1, 2} /\ InitLocals

\* Assembler::assemble, lines 20-21: flatten and first_pass
Call(c, t) ==
    /\ pc[c] = "idle"
    /\ LET flattened == flatten(t)
           fp == first_pass(flattened)
       IN /\ tree' = [tree EXCEPT ![c] = flattened]
          /\ labels' = [labels EXCEPT ![c] = fp.labels]
          /\ bytes_map' = [bytes_map EXCEPT ![c] = fp.bytes_map]
    /\ prev_labels' = [prev_labels EXCEPT ![c] = EmptyMap]
    /\ rounds' = [rounds EXCEPT ![c] = 0]
    /\ result' = [result EXCEPT ![c] = NoResult]
    /\ pc' = [pc EXCEPT ![c] = "optimize"]
    /\ UNCHANGED callers

\* variant of the re-walk that records where it meets the RawData regions
RECURSIVE rewalk_bytes(_, _, _, _)
rewalk_bytes(elements, lbls, bmap, offset) ==
    IF elements = <<>> THEN bmap
    ELSE LET elem == Head(elements)
             l2 == IF elem.kind = "Segment" /\ Has(lbls, elem.name)
                   THEN Insert(lbls, elem.name,
                            LabelInfo(offset, calculate_push_size(offset)))
                   ELSE lbls
             b2 == IF elem.kind = "BytesSegment"
                   THEN Insert(bmap, elem.name,
                            BytesInfo(offset, Len(elem.data)))
                   ELSE bmap
             size ==
                CASE elem.kind = "Segment" ->
                        1 + calculate_segment_size(elem.inner, l2, bmap)
                  [] elem.kind = "BytesSegment" -> Len(elem.data)
                  [] elem.kind = "Opcode" -> 1
                  [] elem.kind = "Literal" -> 1 + Len(elem.data)
                  [] elem.kind = "Label" ->
                        IF Has(lbls, elem.name)
                        THEN 1 + lbls[elem.name].size_estimate
                        ELSE 3
                  [] OTHER -> 3
         IN rewalk_bytes(Tail(elements), l2, b2, offset + size)

\* variant: every round also rewrites the RawData map from its re-walk
Round_rewriting_bytes(c) ==
    /\ pc[c] = "optimize"
    /\ LET prev == labels[c]
           new == recalculate_offsets(tree[c], prev, bytes_map[c])
       IN /\ prev_labels' = [prev_labels EXCEPT ![c] = prev]
          /\ labels' = [labels EXCEPT ![c] = new]
          /\ bytes_map' = [bytes_map EXCEPT ![c] =
                              rewalk_bytes(tree[c], prev, bytes_map[c], 0)]
          /\ rounds' = [rounds EXCEPT ![c] = @ + 1]
          /\ IF offsets_unchanged(prev, new)
             THEN /\ pc' = [pc EXCEPT ![c] = "encode"]
                  /\ UNCHANGED result
             ELSE IF rounds[c] + 1 >= MAX_ITERATIONS
                  THEN /\ pc' = [pc EXCEPT ![c] = "done"]
                       /\ result' = [result EXCEPT ![c] = Err(CircularDependency)]
                  ELSE UNCHANGED <<pc, result>>
    /\ UNCHANGED <<callers, call, tree>>

\* one iteration of the loop of Assembler::optimize_labels
Round(c) ==
    /\ pc[c] = "optimize"
    /\ LET prev == labels[c]
           new == recalculate_offsets(tree[c], prev, bytes_map[c])
       IN /\ prev_labels' = [prev_labels EXCEPT ![c] = prev]
          /\ labels' = [labels EXCEPT ![c] = new]
          /\ rounds' = [rounds EXCEPT ![c] = @ + 1]
          /\ IF offsets_unchanged(prev, new)
             THEN /\ pc' = [pc EXCEPT ![c] = "encode"]
                  /\ UNCHANGED result
             ELSE IF rounds[c] + 1 >= MAX_ITERATIONS
                  THEN /\ pc' = [pc EXCEPT ![c] = "done"]
                       /\ result' = [result EXCEPT ![c] = Err(CircularDependency)]
                  ELSE UNCHANGED <<pc, result>>
    /\ UNCHANGED <<callers, call, tree, bytes_map>>

\* Assembler::assemble, line 23: encode with the optimized maps
Encode(c) ==
    /\ pc[c] = "encode"
    /\ result' = [result EXCEPT ![c] = encode(tree[c], labels[c], bytes_map[c])]
    /\ pc' = [pc EXCEPT ![c] = "done"]
    /\ UNCHANGED <<callers, call, tree, labels, prev_labels, bytes_map, rounds>>

\* the call returns: its locals are dropped
Return(c) ==
    /\ pc[c] \in {"done", "failed"}
    /\ pc' = [pc EXCEPT ![c] = "idle"]
    /\ call' = [call EXCEPT ![c] = NoCall]
    /\ tree' = [tree EXCEPT ![c] = <<>>]
    /\ labels' = [labels EXCEPT ![c] = EmptyMap]
    /\ prev_labels' = [prev_labels EXCEPT ![c] = EmptyMap]
    /\ bytes_map' = [bytes_map EXCEPT ![c] = EmptyMap]
    /\ rounds' = [rounds EXCEPT ![c] = 0]
    /\ result' = [result EXCEPT ![c] = NoResult]
    /\ UNCHANGED callers

\* a caller assembles some tree of the input space
Assemble(c) ==
    /\ pc[c] = "idle"
    /\ \E i \in DOMAIN Families : \E t \in Families[i] :
          /\ Call(c, t)
          /\ call' = [call EXCEPT ![c] =
                        [api |-> "assemble", elements |-> t, values |-> <<>>]]

\* Assembler::assemble_with_placeholders on some tree and some values:
\* line 31 substitutes and returns the substitution error if there is one,
\* line 32 assembles the substituted tree; a panic ends the caller
AssembleWithPlaceholders(c) ==
    /\ pc[c] = "idle"
    /\ \E i \in DOMAIN PlaceholderFamilies :
          \E t \in PlaceholderFamilies[i] : \E vs \in ValueLists :
            LET with_values == substitute_placeholders(t, vs)
            IN /\ call' = [call EXCEPT ![c] =
                             [api |-> "assemble_with_placeholders",
                              elements |-> t, values |-> vs]]
               /\ CASE with_values.kind = "Ok" ->
                            Call(c, with_values.elements)
                    [] with_values.kind = "Err" ->
                            /\ pc' = [pc EXCEPT ![c] = "failed"]
                            /\ result' = [result EXCEPT ![c] = Err(with_values.err)]
                            /\ UNCHANGED <<callers, tree, labels, prev_labels,
                                           bytes_map, rounds>>
                    [] with_values.kind = "Panic" ->
                            /\ pc' = [pc EXCEPT ![c] = "panicked"]
                            /\ UNCHANGED <<callers, tree, labels, prev_labels,
                                           bytes_map, rounds, result>>

Next ==
    \E c \in callers :
        \/ Assemble(c)
        \/ AssembleWithPlaceholders(c)
        \/ Round(c)
        \/ Encode(c)
        \/ Return(c)

Spec == Init /\ [][Next]_vars

SpecConc == InitConc /\ [][Next]_vars

(***************************************************************************)
(* Rendering a number on its own: one caller holds a numeric value and     *)
(* calls to_evm_bytes on it.  A number is b * 256^j + d with a leading     *)
(* byte b, j bytes below it and a last byte d, within the width of its     *)
(* type and below 2^31.                                                    *)
(***************************************************************************)
RECURSIVE pow256(_)
pow256(j) == IF j = 0 THEN 1 ELSE 256 * pow256(j - 1)

Digits == (1..MaxDigit) \cup {127, 255}

\* the numbers rendered for a type of w bytes
Numbers(w) ==
    {0} \cup
    { t[1] * pow256(t[2]) + t[3] :
        t \in { u \in Digits \X (0..3) \X {0, 1} :
                  /\ u[2] < w
                  /\ u[2] = 3 => u[1] <= 127
                  /\ u[2] = 0 => u[3] = 0 } }

NumericTypes == {"u8"} \cup DOMAIN be_width

type_width(t) == IF t = "u8" THEN 1 ELSE be_width[t]

NumericValues ==
    UNION { { [ty |-> t, num |-> n, bytes |-> <<>>] : n \in Numbers(type_width(t)) } :
            t \in NumericTypes }

\* the caller holds some numeric value
InitEnc ==
    /\ callers = {1}
    /\ \E v \in NumericValues :
          call = [c \in CallerIds |->
                    IF c = 1
                    THEN [api |-> "to_evm_bytes", elements |-> <<>>,
                          values |-> <<v>>]
                    ELSE NoCall]
    /\ pc = Idle
    /\ tree = [c \in CallerIds |-> <<>>]
    /\ labels = [c \in CallerIds |-> EmptyMap]
    /\ prev_labels = [c \in CallerIds |-> EmptyMap]
    /\ bytes_map = [c \in CallerIds |-> EmptyMap]
    /\ rounds = [c \in CallerIds |-> 0]
    /\ result = [c \in CallerIds |-> NoResult]

\* EVMEncodable::to_evm_bytes on the value held
Render(c) ==
    /\ pc[c] = "idle"
    /\ call[c].api = "to_evm_bytes"
    /\ result' = [result EXCEPT ![c] = Ok(to_evm_bytes(call[c].values[1]))]
    /\ pc' = [pc EXCEPT ![c] = "done"]
    /\ UNCHANGED <<callers, call, tree, labels, prev_labels, bytes_map, rounds>>

NextEnc == \E c \in callers : Render(c)

SpecEnc == InitEnc /\ [][NextEnc]_vars

(***************************************************************************)
(* The resolver on long chains.  A chain of n Blocks lies behind a         *)
(* RawData region that puts the last Block at offset 65536 in the first    *)
(* re-walk, and the n references that precede the Blocks name them from    *)
(* the last to the first.  Each round one more Block reaches offset 65536, *)
(* its references grow from two payload bytes to three, and every Block    *)
(* moves by one byte: the offsets are unchanged only in round n + 2.  The  *)
(* chain of 98 Blocks converges in round 100, the chain of 99 Blocks is    *)
(* still moving in round 100.  A caller is followed round by round, and    *)
(* also over lines 20-22 of assemble as a single step, which ends in the   *)
(* state the rounds taken one by one end in.                               *)
(***************************************************************************)
ChainName(k) == "b" \o ToString(k)

\* size bytes of padding: a RawData region of zero bytes or, above 16
\* bytes, a Block whose entry marker and 8 paddings take size bytes together
RECURSIVE Padding(_)
Padding(size) ==
    IF size <= 16 THEN BytesSegment("pad", [i \in 1..size |-> 0])
    ELSE LET q == (size - 1) \div 8
             r == (size - 1) % 8
         IN Segment("pad", [i \in 1..8 |->
                               Padding(IF i <= r THEN q + 1 ELSE q)])

ChainPad(n) == Padding(pow256(1 + 1) + 1 - 4 * n)

Chain(n) ==
    <<ChainPad(n)>>
    \o [k \in 1..n |-> Label(ChainName(n + 1 - k))]
    \o [k \in 1..n |-> Segment(ChainName(k), <<>>)]

ChainLengths == (0..MaxNodes) \cup {98, 99}

ChainTrees == {Chain(n) : n \in ChainLengths}

\* a caller assembles one of the chains
AssembleChain(c) ==
    /\ pc[c] = "idle"
    /\ \E t \in ChainTrees :
          /\ Call(c, t)
          /\ call' = [call EXCEPT ![c] =
                        [api |-> "assemble", elements |-> t, values |-> <<>>]]

\* Assembler::assemble, lines 20-22: the locals of the call when
\* optimize_labels returns
resolve(elements) ==
    LET flattened == flatten(elements)
        fp == first_pass(flattened)
        optimized == optimize_labels(fp.labels, fp.bytes_map, flattened, 0)
    IN [tree |-> flattened, bytes_map |-> fp.bytes_map,
        labels |-> optimized.labels, prev_labels |-> optimized.prev,
        rounds |-> optimized.rounds, converged |-> optimized.converged]

\* Assembler::assemble on one of the chains, lines 20-22 as one step:
\* flatten, first_pass and the whole of optimize_labels
ResolveChain(c) ==
    /\ pc[c] = "idle"
    /\ \E t \in ChainTrees : \E at \in {resolve(t)} :
          /\ call' = [call EXCEPT ![c] =
                        [api |-> "assemble", elements |-> t, values |-> <<>>]]
          /\ tree' = [tree EXCEPT ![c] = at.tree]
          /\ bytes_map' = [bytes_map EXCEPT ![c] = at.bytes_map]
          /\ labels' = [labels EXCEPT ![c] = at.labels]
          /\ prev_labels' = [prev_labels EXCEPT ![c] = at.prev_labels]
          /\ rounds' = [rounds EXCEPT ![c] = at.rounds]
          /\ IF at.converged
             THEN /\ pc' = [pc EXCEPT ![c] = "encode"]
                  /\ result' = [result EXCEPT ![c] = NoResult]
             ELSE /\ pc' = [pc EXCEPT ![c] = "done"]
                  /\ result' = [result EXCEPT ![c] = Err(CircularDependency)]
    /\ UNCHANGED callers

NextCap ==
    \E c \in callers :
        \/ ResolveChain(c)
        \/ AssembleChain(c)
        \/ Round(c)
        \/ Encode(c)
        \/ Return(c)

SpecCap == Init /\ [][NextCap]_vars

(***************************************************************************)
(* Observation of a call: the depth-first walk of a tree, and where each   *)
(* element of a successfully encoded tree lies in the output.              *)
(***************************************************************************)
\* the elements of a tree in depth-first order, a Block before its children
RECURSIVE Walk(_)
Walk(elements) ==
    IF elements = <<>> THEN <<>>
    ELSE <<Head(elements)>> \o Walk(Head(elements).inner) \o Walk(Tail(elements))

\* a Block without its children: what the encoder emits for the Block itself
Shallow(elem) == [elem EXCEPT !.inner = <<>>]

\* for each element of Walk(elements): the position at which encode emits
\* it, counted from base, and the bytes emitted for the element itself
RECURSIVE Layout(_, _, _, _)
Layout(elements, lbls, bmap, base) ==
    IF elements = <<>> THEN <<>>
    ELSE LET elem == Head(elements)
             own == encode(<<Shallow(elem)>>, lbls, bmap).bytes
             all == encode(<<elem>>, lbls, bmap).bytes
         IN <<[el |-> elem, pos |-> base, out |-> own]>>
            \o Layout(elem.inner, lbls, bmap, base + Len(own))
            \o Layout(Tail(elements), lbls, bmap, base + Len(all))

\* the layout of the output of caller c
LayoutOf(c) == Layout(tree[c], labels[c], bytes_map[c], 0)

\* the number denoted by a big-endian byte sequence
RECURSIVE be_value(_)
be_value(bytes) ==
    IF bytes = <<>> THEN 0
    ELSE be_value(SubSeq(bytes, 1, Len(bytes) - 1)) * 256 + bytes[Len(bytes)]

\* the value carried by an emitted push: its payload read big-endian
PushedValue(out) == be_value(Tail(out))

\* the names of the Blocks / RawData regions defined anywhere in a tree
BlocksOf(elements) ==
    LET w == Walk(elements)
    IN {w[i].name : i \in {j \in DOMAIN w : w[j].kind = "Segment"}}
RawDataOf(elements) ==
    LET w == Walk(elements)
    IN {w[i].name : i \in {j \in DOMAIN w : w[j].kind = "BytesSegment"}}

Done(c) == pc[c] = "done"
Success(c) == pc[c] = "done" /\ IsOk(result[c])

\* the output holds the bytes out at position pos (counted from 0)
OutputHas(c, pos, out) ==
    /\ pos + Len(out) <= Len(result[c].bytes)
    /\ SubSeq(result[c].bytes, pos + 1, pos + Len(out)) = out

(***************************************************************************)
(* C1.  Jump integrity: in every successful output, the value pushed for a *)
(* Label(name) is the position at which the Block called name emits its    *)
(* block-entry marker, so the output byte at that position is 0x5b.        *)
(***************************************************************************)
C1_JumpIntegrity ==
    \A c \in callers :
        Success(c) =>
            LET lay == LayoutOf(c)
            IN \A i \in DOMAIN lay :
                lay[i].el.kind = "Label" =>
                    LET v == PushedValue(lay[i].out)
                    IN /\ OutputHas(c, v, <<JUMPDEST>>)
                       /\ \E j \in DOMAIN lay :
                            /\ lay[j].el.kind = "Segment"
                            /\ lay[j].el.name = lay[i].el.name
                            /\ lay[j].pos = v

(***************************************************************************)
(* C2.  Flat global namespace: when every Label names a Block and every    *)
(* RawDataPtr/RawDataSize names a RawData region defined somewhere in the  *)
(* tree, at any depth, assemble does not fail with LabelNotFound.          *)
(***************************************************************************)
AllReferencesDefined(elements) ==
    LET w == Walk(elements)
    IN \A i \in DOMAIN w :
        /\ w[i].kind = "Label" => w[i].name \in BlocksOf(elements)
        /\ w[i].kind \in {"BytesPtr", "BytesSize"} =>
                w[i].name \in RawDataOf(elements)

\* C2: with every reference defined somewhere in the tree, assemble never
\* fails with LabelNotFound
C2_FlatNamespace ==
    \A c \in callers :
        (Done(c) /\ AllReferencesDefined(tree[c])) =>
            result[c].err.kind # "LabelNotFound"

(***************************************************************************)
(* C3.  Scenario B: for [Label(t), Opcode(jump), Block(t, body)] with a    *)
(* body of table opcodes and literals, assemble succeeds, the output       *)
(* starts with a push directly followed by the jump opcode, and the value  *)
(* pushed is the index of the 0x5b byte emitted for Block t.               *)
(***************************************************************************)
IsScenarioB(t) ==
    /\ Len(t) = 3
    /\ t[1].kind = "Label"
    /\ t[2] = Opcode("jump")
    /\ t[3].kind = "Segment"
    /\ t[3].name = t[1].name
    /\ \A i \in DOMAIN t[3].inner :
        \/ t[3].inner[i].kind = "Literal"
        \/ /\ t[3].inner[i].kind = "Opcode"
           /\ t[3].inner[i].name \in DOMAIN opcode_map

\* C3: Scenario B succeeds and the value pushed before the jump opcode is
\* the index of the 0x5b byte of Block t
C3_ScenarioB ==
    \A c \in callers :
        (Done(c) /\ IsScenarioB(tree[c])) =>
            /\ IsOk(result[c])
            /\ LET b == result[c].bytes
                   n == b[1] - (PUSH1 - 1)
                   v == be_value(SubSeq(b, 2, 1 + n))
               IN /\ n \in 1..MaxPushBytes
                  /\ Len(b) >= n + 3
                  /\ b[n + 2] = opcode_map["jump"]
                  /\ v = LayoutOf(c)[3].pos
                  /\ b[v + 1] = JUMPDEST

C3_Witness ==
    \E c \in callers :
        /\ Success(c)
        /\ IsScenarioB(tree[c])
        /\ \E i \in DOMAIN tree[c][3].inner :
                tree[c][3].inner[i] = Literal(<<>>)

(***************************************************************************)
(* C4.  Minimal width: in every successful output the push emitted for a   *)
(* Literal, Label, RawDataPtr or RawDataSize has opcode 0x5f + n and a     *)
(* payload of exactly n = calculate_push_size(value) bytes that denotes    *)
(* the value; the payload starts with a zero byte only for the value 0,    *)
(* which is emitted as exactly one 0x00 byte.  The value of a literal of   *)
(* more than three significant bytes is not computed: its width, the       *)
(* number of its significant bytes capped at 32, is compared instead.      *)
(***************************************************************************)
PushKinds == {"Literal", "Label", "BytesPtr", "BytesSize"}

\* the elements whose value is computed: every reference, and the literals
\* of at most three significant bytes
IsShort(el) == el.kind = "Literal" => Len(skip_zeros(el.data)) <= 3

\* the value an element asks to push
ValueOf(c, el) ==
    CASE el.kind = "Literal" -> be_value(el.data)
      [] el.kind = "Label" -> labels[c][el.name].offset
      [] el.kind = "BytesPtr" -> bytes_map[c][el.name].offset
      [] el.kind = "BytesSize" -> bytes_map[c][el.name].size

\* C4: every emitted push is 0x5f + n followed by n = calculate_push_size(value)
\* payload bytes, without a leading zero byte unless the value is 0
C4_MinimalWidth ==
    \A c \in callers :
        Success(c) =>
            LET lay == LayoutOf(c)
            IN \A i \in DOMAIN lay :
                lay[i].el.kind \in PushKinds =>
                    LET out == lay[i].out
                        n == Len(out) - 1
                        v == ValueOf(c, lay[i].el)
                    IN /\ OutputHas(c, lay[i].pos, out)
                       /\ n >= 1
                       /\ out[1] = PUSH1 - 1 + n
                       /\ IF IsShort(lay[i].el)
                          THEN /\ n = calculate_push_size(v)
                               /\ PushedValue(out) = v
                               /\ out[2] = 0 => (v = 0 /\ n = 1)
                          ELSE /\ n = Min(Len(skip_zeros(lay[i].el.data)),
                                          MaxPushBytes)
                               /\ out[2] # 0

C4_Witness ==
    \E c \in callers :
        /\ Success(c)
        /\ LET lay == LayoutOf(c)
           IN \E i \in DOMAIN lay :
                /\ lay[i].el.kind = "Label"
                /\ Len(lay[i].out) = 3
                /\ PushedValue(lay[i].out) >= 256

(***************************************************************************)
(* C5.  A tree of Opcode, Literal and RawData elements only assembles to   *)
(* the in-order concatenation of one table byte per Opcode, one minimal    *)
(* push per Literal and the blob of each RawData; Scenario A assembles to  *)
(* 600160020160005260206000f3.  A Literal is a value of at most 32 bytes.  *)
(***************************************************************************)
IsPlain(t) ==
    \A i \in DOMAIN t :
        \/ t[i].kind = "BytesSegment"
        \/ t[i].kind = "Literal" /\ Len(skip_zeros(t[i].data)) <= MaxPushBytes
        \/ t[i].kind = "Opcode" /\ t[i].name \in DOMAIN opcode_map

\* the number of zero bytes a byte sequence starts with
LeadingZeros(d) ==
    CHOOSE k \in 0..Len(d) :
        /\ \A i \in 1..k : d[i] = 0
        /\ k < Len(d) => d[k + 1] # 0

\* the minimal push of a literal, stated on the bytes
MinimalPush(d) ==
    LET k == LeadingZeros(d)
    IN IF k = Len(d) THEN <<96, 0>>
       ELSE <<95 + (Len(d) - k)>> \o [i \in 1..(Len(d) - k) |-> d[k + i]]

RECURSIVE PlainBytes(_)
PlainBytes(t) ==
    IF t = <<>> THEN <<>>
    ELSE LET e == Head(t)
             own == CASE e.kind = "Opcode" -> <<opcode_map[e.name]>>
                      [] e.kind = "Literal" -> MinimalPush(e.data)
                      [] e.kind = "BytesSegment" -> e.data
         IN own \o PlainBytes(Tail(t))

ScenarioABytes == <<96, 1, 96, 2, 1, 96, 0, 82, 96, 32, 96, 0, 243>>

\* C5: a tree of Opcode, Literal and RawData elements assembles to the
\* concatenation of their bytes; Scenario A gives 600160020160005260206000f3
C5_PlainConcatenation ==
    \A c \in callers :
        (Done(c) /\ IsPlain(tree[c])) =>
            /\ result[c] = Ok(PlainBytes(tree[c]))
            /\ tree[c] = ScenarioA => result[c].bytes = ScenarioABytes

C5_Witness ==
    \E c \in callers : Success(c) /\ tree[c] = ScenarioA

(***************************************************************************)
(* C6.  A Literal whose bytes are empty or all zero, whatever their        *)
(* number, is emitted as exactly the two bytes 0x60 0x00.                  *)
(***************************************************************************)
AllZero(d) == \A i \in DOMAIN d : d[i] = 0

\* C6: an empty or all-zero Literal is emitted as exactly 0x60 0x00
C6_ZeroLiteral ==
    \A c \in callers :
        Success(c) =>
            LET lay == LayoutOf(c)
            IN \A i \in DOMAIN lay :
                (lay[i].el.kind = "Literal" /\ AllZero(lay[i].el.data)) =>
                    /\ lay[i].out = <<96, 0>>
                    /\ OutputHas(c, lay[i].pos, <<96, 0>>)
                    /\ i = Len(lay) => Len(result[c].bytes) = lay[i].pos + 2

C6_Witness ==
    \E c \in callers :
        /\ Success(c)
        /\ \E i \in DOMAIN tree[c] : tree[c][i] = Literal(<<>>)
        /\ \E i \in DOMAIN tree[c] : tree[c][i] = Literal(<<0, 0>>)

(***************************************************************************)
(* C7.  Determinism: two calls of assemble on the same tree return the     *)
(* same result, whatever calls the same caller made before and whatever    *)
(* the other caller of the Assembler is doing meanwhile.                   *)
(***************************************************************************)
C7_Determinism ==
    \A c1 \in callers : \A c2 \in callers :
        (Done(c1) /\ Done(c2) /\ tree[c1] = tree[c2]) =>
            result[c1] = result[c2]

C7_Witness ==
    /\ Success(1) /\ Success(2)
    /\ tree[1] = tree[2]
    /\ tree[1] = ScenarioB(<<>>)

(***************************************************************************)
(* C8.  Convergence bound: the resolver performs at most 100 re-walk       *)
(* rounds, each step of the loop being one more round; it hands the maps   *)
(* to the encoder only when its last round left every Block offset         *)
(* unchanged, and when the 100th round still changed an offset assemble    *)
(* returns CircularDependency and no bytes, and in no other case.  Checked *)
(* on the chains of SpecCap: the chain of 98 Blocks is handed to the       *)
(* encoder after round 100, the chain of 99 Blocks is refused after it.    *)
(* The cap is written out as 100, the number the claim states.             *)
(***************************************************************************)
Stabilised(c) ==
    \A k \in DOMAIN prev_labels[c] :
        /\ k \in DOMAIN labels[c]
        /\ labels[c][k].offset = prev_labels[c][k].offset

RoundsBounded ==
    \A c \in callers :
        /\ rounds[c] \in 0..100
        /\ pc[c] = "optimize" => rounds[c] < 100
        /\ (pc[c] = "encode" \/ Success(c)) =>
                rounds[c] >= 1 /\ Stabilised(c)
        /\ result[c].err.kind = "CircularDependency" =>
                /\ rounds[c] = 100
                /\ ~Stabilised(c)
                /\ result[c].bytes = <<>>
        /\ (Done(c) /\ ~Stabilised(c)) => result[c] = Err(CircularDependency)

RoundStep ==
    \A c \in callers :
        ( /\ pc[c] = "optimize"
          /\ <<pc[c], labels[c], prev_labels[c], rounds[c]>>'
                # <<pc[c], labels[c], prev_labels[c], rounds[c]>> ) =>
            /\ rounds'[c] = rounds[c] + 1
            /\ pc'[c] \in {"optimize", "encode", "done"}
            /\ pc'[c] = "done" => result'[c] = Err(CircularDependency)
            /\ pc'[c] = "optimize" => rounds'[c] < 100

\* C8: at most 100 rounds; CircularDependency exactly when the 100th round
\* still changed an offset
C8_ConvergenceBound == []RoundsBounded /\ [][RoundStep]_vars

\* the 100th round of a call still changed an offset and the call returned
\* CircularDependency
C8_Witness ==
    \E c \in callers :
        /\ Done(c)
        /\ rounds[c] = 100
        /\ ~Stabilised(c)
        /\ result[c] = Err(CircularDependency)

(***************************************************************************)
(* C9.  Undefined names: when the resolver converges on a tree and the     *)
(* first element of the depth-first walk that the encoder fails on is a    *)
(* Label naming no Block, or a RawDataPtr/RawDataSize naming no RawData    *)
(* region, of the tree, assemble returns LabelNotFound with that name; no  *)
(* error is reported before the encoder runs.                              *)
(***************************************************************************)
\* the encoder fails on the element itself
FailsAt(c, el) == ~IsOk(encode(<<Shallow(el)>>, labels[c], bytes_map[c]))

IsUndefinedReference(t, el) ==
    \/ el.kind = "Label" /\ el.name \notin BlocksOf(t)
    \/ el.kind \in {"BytesPtr", "BytesSize"} /\ el.name \notin RawDataOf(t)

\* C9: the first failing element being an undefined reference, assemble
\* returns LabelNotFound with its name, and only the encoder reports it
C9_UndefinedName ==
    \A c \in callers :
        /\ pc[c] \in {"optimize", "encode"} => result[c] = NoResult
        /\ (Done(c) /\ result[c].err.kind # "CircularDependency") =>
              LET w == Walk(tree[c])
              IN \A i \in DOMAIN w :
                    ( /\ IsUndefinedReference(tree[c], w[i])
                      /\ \A j \in 1..(i - 1) : ~FailsAt(c, w[j]) ) =>
                        result[c] = Err(LabelNotFound(w[i].name))

C9_Witness ==
    \E c \in callers :
        /\ Done(c)
        /\ result[c].err.kind = "LabelNotFound"
        /\ LET w == Walk(tree[c])
           IN /\ Len(w) = 3
              /\ w[1].kind = "Segment" /\ w[2].kind = "Segment"
              /\ w[3].kind = "BytesSize"
              /\ tree[c][1].inner # <<>>
              /\ IsUndefinedReference(tree[c], w[3])

(***************************************************************************)
(* C10.  Unknown opcodes: when the first element of the depth-first walk   *)
(* that the encoder fails on is an Opcode whose mnemonic is not in the     *)
(* opcode table, at top level or inside a Block, assemble returns          *)
(* UnknownOpcode with that mnemonic and no bytes.                          *)
(***************************************************************************)
C10_UnknownOpcode ==
    \A c \in callers :
        Done(c) =>
            LET w == Walk(tree[c])
            IN \A i \in DOMAIN w :
                ( /\ w[i].kind = "Opcode"
                  /\ w[i].name \notin DOMAIN opcode_map
                  /\ \A j \in 1..(i - 1) : ~FailsAt(c, w[j]) ) =>
                    /\ result[c].err = UnknownOpcode(w[i].name)
                    /\ result[c].bytes = <<>>

C10_Witness ==
    \E c \in callers :
        /\ Done(c)
        /\ result[c].err.kind = "UnknownOpcode"
        /\ Len(tree[c]) = 2
        /\ tree[c][1].kind = "Literal"
        /\ tree[c][2].kind = "Segment"
        /\ tree[c][2].inner = <<Opcode("bogus")>>

(***************************************************************************)
(* Observation of assemble_with_placeholders.                              *)
(***************************************************************************)
ViaPlaceholders(c) == call[c].api = "assemble_with_placeholders"

\* the call is over: it returned from assemble, returned the substitution
\* error, or panicked
Finished(c) == pc[c] \in {"done", "failed", "panicked"}

\* the placeholder indices that occur in a tree, at any depth
PlaceholdersOf(elements) ==
    LET w == Walk(elements)
    IN {w[i].idx : i \in {j \in DOMAIN w : w[j].kind = "Placeholder"}}

\* the tree with every Placeholder(i), at any depth, replaced by the bytes
\* of values[i]; defined when every index is below Len(values)
RECURSIVE SubstituteAll(_, _)
SubstituteAll(elements, values) ==
    IF elements = <<>> THEN <<>>
    ELSE LET elem == Head(elements)
             out == CASE elem.kind = "Placeholder" ->
                            Literal(to_evm_bytes(values[elem.idx + 1]))
                      [] elem.kind = "Segment" ->
                            Segment(elem.name, SubstituteAll(elem.inner, values))
                      [] OTHER -> elem
         IN <<out>> \o SubstituteAll(Tail(elements), values)

(***************************************************************************)
(* C11.  A live placeholder: when the first element of the depth-first     *)
(* walk that the encoder fails on is a Placeholder(i), at top level or     *)
(* inside a Block, assemble returns InvalidPlaceholder(i), the error       *)
(* carrying the index i of that placeholder; a tree that contains a        *)
(* Placeholder never yields bytes.                                         *)
(***************************************************************************)
C11_LivePlaceholder ==
    \A c \in callers :
        (Done(c) /\ result[c].err.kind # "CircularDependency") =>
            LET w == Walk(tree[c])
            IN /\ PlaceholdersOf(tree[c]) # {} => ~IsOk(result[c])
               /\ \A i \in DOMAIN w :
                    ( /\ w[i].kind = "Placeholder"
                      /\ \A j \in 1..(i - 1) : ~FailsAt(c, w[j]) ) =>
                        result[c] = Err(InvalidPlaceholder(w[i].idx))

(***************************************************************************)
(* C12.  Substitution covers the whole tree: when every placeholder index  *)
(* of the tree is below values.len(), assemble_with_placeholders returns   *)
(* what assemble returns on the tree in which every Placeholder(i), at any *)
(* depth, is replaced by Literal(values[i].to_evm_bytes()).                *)
(***************************************************************************)
AllIndicesInRange(c) ==
    \A i \in PlaceholdersOf(call[c].elements) : i < Len(call[c].values)

\* C12: with every index in range, assemble_with_placeholders returns the
\* result of assemble on the fully substituted tree
C12_SubstitutionCoversTree ==
    \A c \in callers :
        (ViaPlaceholders(c) /\ Finished(c) /\ AllIndicesInRange(c)) =>
            /\ pc[c] = "done"
            /\ result[c] =
                 assemble(SubstituteAll(call[c].elements, call[c].values))

(***************************************************************************)
(* C13.  An index out of range: when the tree contains, at any depth, a    *)
(* Placeholder(i) with i >= values.len(), assemble_with_placeholders       *)
(* returns InvalidPlaceholder(i) for such an i as an error value, before   *)
(* any offset resolution or encoding.                                      *)
(***************************************************************************)
OutOfRange(c) ==
    {i \in PlaceholdersOf(call[c].elements) : i >= Len(call[c].values)}

\* C13: with an index out of range, the call returns InvalidPlaceholder
\* with such an index, and neither the resolver nor the encoder has run
C13_IndexOutOfRange ==
    \A c \in callers :
        (ViaPlaceholders(c) /\ OutOfRange(c) # {}) =>
            /\ pc[c] = "failed"
            /\ result[c].err.kind = "InvalidPlaceholder"
            /\ result[c].err.idx \in OutOfRange(c)
            /\ result[c].bytes = <<>>
            /\ rounds[c] = 0
            /\ labels[c] = EmptyMap

(***************************************************************************)
(* C14.  A literal wider than the widest push: when the first element of   *)
(* the depth-first walk that cannot be encoded is a Literal of more than   *)
(* 32 bytes after its leading zero bytes are trimmed, assemble fails with  *)
(* IntegerOverflow.                                                        *)
(***************************************************************************)
IsWide(el) == el.kind = "Literal" /\ Len(skip_zeros(el.data)) > MaxPushBytes

\* C14: a Literal of more than 32 significant bytes makes assemble fail
\* with IntegerOverflow
C14_WideLiteral ==
    \A c \in callers :
        (Done(c) /\ result[c].err.kind # "CircularDependency") =>
            LET w == Walk(tree[c])
            IN \A i \in DOMAIN w :
                ( /\ IsWide(w[i])
                  /\ \A j \in 1..(i - 1) : ~FailsAt(c, w[j]) ) =>
                    result[c] = Err(IntegerOverflow)

(***************************************************************************)
(* C15.  No partial output: when the tree holds an element the encoder     *)
(* cannot encode (an unknown mnemonic, an undefined name, a Placeholder),  *)
(* at top level or inside a Block, also behind elements that were encoded, *)
(* assemble returns an error and none of the bytes encoded before it; no   *)
(* call returns bytes together with an error.                              *)
(***************************************************************************)
\* the element cannot be encoded with the maps of the call
ElementInvalid(c, el) ==
    \/ el.kind = "Opcode" /\ el.name \notin DOMAIN opcode_map
    \/ el.kind = "Label" /\ ~Has(labels[c], el.name)
    \/ el.kind \in {"BytesPtr", "BytesSize"} /\ ~Has(bytes_map[c], el.name)
    \/ el.kind = "Placeholder"

\* C15: an element that cannot be encoded makes the call return the error
\* alone, without any byte
C15_NoPartialOutput ==
    \A c \in callers :
        /\ ~IsOk(result[c]) => result[c].bytes = <<>>
        /\ Done(c) =>
            LET w == Walk(tree[c])
            IN (\E i \in DOMAIN w : ElementInvalid(c, w[i])) =>
                    /\ ~IsOk(result[c])
                    /\ result[c].bytes = <<>>

C15_Witness ==
    \E c \in callers :
        /\ Done(c)
        /\ result[c] = Err(LabelNotFound("b"))
        /\ Len(tree[c]) = 2
        /\ tree[c][1] = Literal(<<1>>)
        /\ tree[c][2].kind = "Segment"
        /\ tree[c][2].inner = <<Label("b")>>

(***************************************************************************)
(* C16.  Scenario E: for a tree [.., Label(t), jump, Block(t, body), ..]   *)
(* whose body refers to t itself, the resolver converges, assemble         *)
(* succeeds and every Label(t), outside and inside the Block, is emitted   *)
(* as the same push of the one resolved offset of t.                       *)
(***************************************************************************)
\* a table opcode or a literal
IsPlainElement(el) ==
    \/ el.kind = "Literal"
    \/ el.kind = "Opcode" /\ el.name \in DOMAIN opcode_map

\* RawData regions, then Label(t), jump and the Block t whose body refers
\* to t and to top-level Blocks only, then further Blocks of other names
IsScenarioE(t) ==
    \E p \in DOMAIN t :
        /\ p + 2 <= Len(t)
        /\ t[p].kind = "Label"
        /\ t[p + 1] = Opcode("jump")
        /\ t[p + 2].kind = "Segment"
        /\ t[p + 2].name = t[p].name
        /\ \A i \in 1..(p - 1) : t[i].kind = "BytesSegment"
        /\ \A i \in (p + 3)..Len(t) :
            /\ t[i].kind = "Segment"
            /\ t[i].name # t[p].name
            /\ \A j \in DOMAIN t[i].inner : IsPlainElement(t[i].inner[j])
        /\ \E i \in DOMAIN t[p + 2].inner : t[p + 2].inner[i] = t[p]
        /\ \A i \in DOMAIN t[p + 2].inner :
            \/ IsPlainElement(t[p + 2].inner[i])
            \/ /\ t[p + 2].inner[i].kind = "Label"
               /\ \E j \in DOMAIN t :
                    /\ t[j].kind = "Segment"
                    /\ t[j].name = t[p + 2].inner[i].name

\* C16: Scenario E converges and every occurrence of Label(t) pushes the
\* same offset
C16_ScenarioE ==
    \A c \in callers :
        (Done(c) /\ IsScenarioE(tree[c])) =>
            /\ IsOk(result[c])
            /\ Stabilised(c)
            /\ LET lay == LayoutOf(c)
                   refs == {i \in DOMAIN lay : lay[i].el.kind = "Label"}
               IN /\ \E i \in refs : \E j \in refs :
                        i # j /\ lay[i].el = lay[j].el
                  /\ \A i \in refs :
                        /\ OutputHas(c, lay[i].pos, lay[i].out)
                        /\ PushedValue(lay[i].out)
                             = labels[c][lay[i].el.name].offset
                  /\ \A i \in refs : \A j \in refs :
                        lay[i].el = lay[j].el =>
                            /\ lay[i].out = lay[j].out
                            /\ SubSeq(result[c].bytes, lay[i].pos + 1,
                                      lay[i].pos + Len(lay[i].out))
                                 = SubSeq(result[c].bytes, lay[j].pos + 1,
                                          lay[j].pos + Len(lay[j].out))

C16_Witness ==
    \E c \in callers :
        /\ Success(c)
        /\ IsScenarioE(tree[c])
        /\ tree[c] = <<BigBlob>> \o ScenarioE(LoopBody)
        /\ labels[c]["loop"].offset >= 256
        /\ labels[c]["done"].offset > labels[c]["loop"].offset

(***************************************************************************)
(* C17.  Scenario C: for Blocks nested three levels deep, each inside the  *)
(* body of the previous one, the output holds exactly one block-entry      *)
(* marker per Block: three 0x5b bytes, at three distinct positions that    *)
(* increase from the outer Block to the inner one.                         *)
(***************************************************************************)
\* the elements of a body other than Blocks are table opcodes and literals
IsPlainBody(body) ==
    \A i \in DOMAIN body :
        \/ body[i].kind \in {"Literal", "Segment"}
        \/ body[i].kind = "Opcode" /\ body[i].name \in DOMAIN opcode_map

\* one top-level Block, holding one Block, holding one Block that holds
\* none; the other elements are literals, table opcodes and references to
\* these Blocks
IsScenarioC(t) ==
    LET w == Walk(t)
        blocks == {i \in DOMAIN w : w[i].kind = "Segment"}
    IN /\ Cardinality(blocks) = 3
       /\ Cardinality(BlocksOf(t)) = 3
       /\ \A i \in DOMAIN w :
            \/ w[i].kind = "Segment"
            \/ IsPlainElement(w[i])
            \/ w[i].kind = "Label" /\ w[i].name \in BlocksOf(t)
       /\ \E k \in DOMAIN t :
            /\ t[k].kind = "Segment"
            /\ \E i \in DOMAIN t[k].inner :
                /\ t[k].inner[i].kind = "Segment"
                /\ \E j \in DOMAIN t[k].inner[i].inner :
                        t[k].inner[i].inner[j].kind = "Segment"

\* the positions of the output that hold the block-entry marker byte
MarkerPositions(bytes) == {p \in DOMAIN bytes : bytes[p] = JUMPDEST}

\* the bytes emitted for the Blocks themselves are three markers, at
\* positions that increase from the outer Block to the inner one
ThreeMarkers(c) ==
    /\ IsOk(result[c])
    /\ Cardinality(MarkerPositions(result[c].bytes)) = 3
    /\ LET lay == LayoutOf(c)
           blocks == {i \in DOMAIN lay : lay[i].el.kind = "Segment"}
       IN /\ Cardinality(blocks) = 3
          /\ \A i \in blocks :
                /\ lay[i].out = <<JUMPDEST>>
                /\ lay[i].pos + 1 \in MarkerPositions(result[c].bytes)
          /\ \A i \in blocks : \A j \in blocks :
                i < j => lay[i].pos < lay[j].pos

\* C17: three nested Blocks give three markers, at increasing positions
\* from the outer Block to the inner one
C17_ScenarioC ==
    \A c \in callers :
        (Done(c) /\ IsScenarioC(call[c].elements)) => ThreeMarkers(c)

\* the same for three nested Blocks that nothing refers to
UnreferencedScenarioC ==
    \A c \in callers :
        ( /\ Done(c)
          /\ IsScenarioC(call[c].elements)
          /\ \A i \in DOMAIN Walk(call[c].elements) :
                Walk(call[c].elements)[i].kind # "Label" ) =>
            ThreeMarkers(c)

(***************************************************************************)
(* C18.  In every successful output, the value pushed for a                *)
(* RawDataPtr(name) is the position at which the first byte of the RawData *)
(* region called name lies in the output.                                  *)
(***************************************************************************)
C18_RawDataPtrExact ==
    \A c \in callers :
        Success(c) =>
            LET lay == LayoutOf(c)
            IN \A i \in DOMAIN lay :
                lay[i].el.kind = "BytesPtr" =>
                    \E j \in DOMAIN lay :
                        /\ lay[j].el.kind = "BytesSegment"
                        /\ lay[j].el.name = lay[i].el.name
                        /\ lay[j].pos = PushedValue(lay[i].out)

(***************************************************************************)
(* C19.  In every successful output, the value pushed for a                *)
(* RawDataSize(name) is the number of bytes of the blob of a RawData       *)
(* region called name, and that region occupies exactly that many bytes    *)
(* of the output: its blob, verbatim.                                      *)
(***************************************************************************)
C19_RawDataSize ==
    \A c \in callers :
        Success(c) =>
            LET lay == LayoutOf(c)
            IN \A i \in DOMAIN lay :
                lay[i].el.kind = "BytesSize" =>
                    /\ OutputHas(c, lay[i].pos, lay[i].out)
                    /\ \E j \in DOMAIN lay :
                        /\ lay[j].el.kind = "BytesSegment"
                        /\ lay[j].el.name = lay[i].el.name
                        /\ PushedValue(lay[i].out) = Len(lay[j].el.data)
                        /\ Len(lay[j].out) = Len(lay[j].el.data)
                        /\ OutputHas(c, lay[j].pos, lay[j].el.data)

C19_Witness ==
    \E c \in callers :
        /\ Success(c)
        /\ LET lay == LayoutOf(c)
           IN \E i \in DOMAIN lay : \E j \in DOMAIN lay :
                /\ lay[i].el = BytesSize("d")
                /\ lay[j].el.kind = "BytesSegment"
                /\ lay[j].el.name = "d"
                /\ lay[j].pos > 0
                /\ PushedValue(lay[i].out) = 2

(***************************************************************************)
(* C20.  Fixed-width values keep their width: in every successful output   *)
(* of assemble_with_placeholders, a placeholder bound to an Address or a   *)
(* FixedBytes value of N bytes is emitted as the push 0x5f + N followed by *)
(* exactly those N bytes, leading zero bytes included.                     *)
(***************************************************************************)
IsFixedWidth(v) == v.ty \in {"Address", "FixedBytes"}

\* C20: a placeholder bound to an N-byte fixed-width value is emitted as
\* PUSHN followed by its N bytes
C20_FixedWidth ==
    \A c \in callers :
        (Success(c) /\ ViaPlaceholders(c)) =>
            LET w == Walk(call[c].elements)
                lay == LayoutOf(c)
            IN \A i \in DOMAIN w :
                ( /\ w[i].kind = "Placeholder"
                  /\ IsFixedWidth(call[c].values[w[i].idx + 1]) ) =>
                    LET fixed == call[c].values[w[i].idx + 1].bytes
                    IN OutputHas(c, lay[i].pos,
                                 <<PUSH1 - 1 + Len(fixed)>> \o fixed)

(***************************************************************************)
(* C21.  For every numeric value v of the types u8, u16, u32, u64, u128    *)
(* and U256, to_evm_bytes(v) is the minimal big-endian rendering of v:     *)
(* the bytes read back big-endian give v, the first byte is non-zero       *)
(* unless v = 0, and v = 0 is rendered as exactly [0x00].                  *)
(***************************************************************************)
Rendered(c) == Done(c) /\ call[c].api = "to_evm_bytes"

\* C21: to_evm_bytes of a number is its minimal big-endian rendering
C21_MinimalRendering ==
    \A c \in callers :
        Rendered(c) =>
            LET v == call[c].values[1]
                b == result[c].bytes
            IN /\ IsOk(result[c])
               /\ Len(b) >= 1
               /\ Len(b) <= type_width(v.ty)
               /\ be_value(b) = v.num
               /\ b[1] = 0 => v.num = 0
               /\ v.num = 0 => b = <<0>>

C21_Witness ==
    \E c \in callers :
        /\ Rendered(c)
        /\ call[c].values[1] = U64(256)
        /\ result[c].bytes = <<1, 0>>

(***************************************************************************)
(* C22.  Duplicate names overwrite: in every successful output of a tree   *)
(* that defines two or more Blocks with one name, every Label(name) pushes *)
(* the position of the last Block with that name in walk order.            *)
(***************************************************************************)
\* the indices of the Blocks called name in a layout
BlocksNamed(lay, name) ==
    {j \in DOMAIN lay : lay[j].el.kind = "Segment" /\ lay[j].el.name = name}

\* the index of the last of them in walk order
LastBlockNamed(lay, name) ==
    CHOOSE j \in BlocksNamed(lay, name) :
        \A k \in BlocksNamed(lay, name) : k <= j

\* C22: with a Block name defined more than once, a successful output
\* pushes for every Label(name) the position of the last Block called name
C22_DuplicateOverwrite ==
    \A c \in callers :
        Success(c) =>
            LET lay == LayoutOf(c)
            IN \A i \in DOMAIN lay :
                ( /\ lay[i].el.kind = "Label"
                  /\ Cardinality(BlocksNamed(lay, lay[i].el.name)) >= 2 ) =>
                    PushedValue(lay[i].out)
                        = lay[LastBlockNamed(lay, lay[i].el.name)].pos

(***************************************************************************)
(* C23.  In the label map the resolver returns, the offsets of Blocks      *)
(* with distinct names are non-negative and non-decreasing in the order    *)
(* in which the depth-first walk defines the Blocks.                       *)
(***************************************************************************)
\* the resolver has returned its label map to assemble
Resolved(c) == pc[c] = "encode" \/ Success(c)

\* the number of Blocks called name anywhere in a tree
Definitions(elements, name) ==
    LET w == Walk(elements)
    IN Cardinality({j \in DOMAIN w :
                        w[j].kind = "Segment" /\ w[j].name = name})

\* the walk positions of the Blocks that are defined once and recorded
\* in the label map lbls
RecordedBlocks(elements, lbls) ==
    LET w == Walk(elements)
    IN {j \in DOMAIN w : /\ w[j].kind = "Segment"
                         /\ Has(lbls, w[j].name)
                         /\ Definitions(elements, w[j].name) = 1}

\* C23: in the returned label map, a Block defined later in the walk never
\* has a smaller offset than a Block defined earlier, and no offset is
\* negative
C23_MonotoneOffsets ==
    \A c \in callers :
        Resolved(c) =>
            LET w == Walk(tree[c])
                rec == RecordedBlocks(tree[c], labels[c])
            IN \A i \in rec : \A j \in rec :
                /\ labels[c][w[i].name].offset >= 0
                /\ i < j => labels[c][w[i].name].offset
                                <= labels[c][w[j].name].offset

C23_Witness ==
    \E c \in callers :
        /\ Success(c)
        /\ LET w == Walk(tree[c])
               rec == RecordedBlocks(tree[c], labels[c])
           IN \E i \in rec : \E j \in rec :
                /\ i < j
                /\ w[i].inner # <<>>
                /\ labels[c][w[i].name].offset < labels[c][w[j].name].offset

(***************************************************************************)
(* C24.  The encoder mirrors the resolver's walk: in every successful      *)
(* call, the size the resolver's last re-walk adds to its running offset   *)
(* for an element is the number of bytes the encoder emits for it, and     *)
(* the running offset at the element is its position in the output.        *)
(***************************************************************************)
\* what one re-walk adds to the running offset for an element itself, at
\* top level (recalculate_offsets) and inside a Block
\* (calculate_segment_size); for a Block, its marker
rewalk_size(elem, lbls, bmap, top) ==
    CASE elem.kind = "Segment" -> 1
      [] elem.kind = "BytesSegment" -> Len(elem.data)
      [] elem.kind = "Opcode" -> 1
      [] elem.kind = "Literal" -> 1 + Len(elem.data)
      [] elem.kind = "Label" ->
            IF Has(lbls, elem.name) THEN 1 + lbls[elem.name].size_estimate
            ELSE 3
      [] elem.kind \in {"BytesPtr", "BytesSize", "Placeholder"} ->
            IF top THEN 3
            ELSE calculate_segment_size(<<elem>>, lbls, bmap)

\* for each element of Walk(elements): the running offset of one re-walk
\* when it reaches the element, and the size it adds for the element
RECURSIVE rewalk(_, _, _, _, _)
rewalk(elements, lbls, bmap, offset, top) ==
    IF elements = <<>> THEN <<>>
    ELSE LET elem == Head(elements)
             l2 == IF top /\ elem.kind = "Segment" /\ Has(lbls, elem.name)
                   THEN Insert(lbls, elem.name,
                            LabelInfo(offset, calculate_push_size(offset)))
                   ELSE lbls
             own == rewalk_size(elem, l2, bmap, top)
             all == IF elem.kind = "Segment"
                    THEN 1 + calculate_segment_size(elem.inner, l2, bmap)
                    ELSE own
         IN <<[el |-> elem, pos |-> offset, size |-> own]>>
            \o rewalk(elem.inner, l2, bmap, offset + 1, FALSE)
            \o rewalk(Tail(elements), l2, bmap, offset + all, top)

\* the last re-walk of caller c: it started from the map of the round before
LastRewalk(c) == rewalk(tree[c], prev_labels[c], bytes_map[c], 0, TRUE)

\* C24: in a successful call, the resolver's last re-walk and the encoder
\* agree, element by element, on the size of the element and on where it
\* starts
C24_EncoderMirrorsResolver ==
    \A c \in callers :
        Success(c) =>
            LET lay == LayoutOf(c)
                rw == LastRewalk(c)
            IN \A i \in DOMAIN lay :
                /\ rw[i].el = lay[i].el
                /\ rw[i].size = Len(lay[i].out)
                /\ rw[i].pos = lay[i].pos

(***************************************************************************)
(* C25.  The map the resolver returns is a fixed point: one more re-walk   *)
(* of the tree from the returned map gives every Block the same offset     *)
(* and the same reference width again.                                     *)
(***************************************************************************)
\* C25: re-walking the tree from the returned label map returns that map
C25_FixedPoint ==
    \A c \in callers :
        Resolved(c) =>
            LET again == recalculate_offsets(tree[c], labels[c], bytes_map[c])
            IN \A k \in DOMAIN labels[c] :
                /\ Has(again, k)
                /\ again[k].offset = labels[c][k].offset
                /\ again[k].size_estimate = labels[c][k].size_estimate

(***************************************************************************)
(* C26.  The initial pass and the re-walk size the elements that do not    *)
(* depend on references identically, at top level and inside Blocks:       *)
(* Opcode as 1, Literal as 1 + its trimmed length (2 when zero or empty),  *)
(* RawData as the length of its blob.                                      *)
(***************************************************************************)
\* what the initial pass adds to its running offset for an element that
\* holds no reference: first_pass at top level, estimate_size inside a Block
first_pass_size(elem, top) ==
    CASE elem.kind = "Opcode" -> 1
      [] elem.kind = "BytesSegment" -> Len(elem.data)
      [] elem.kind = "Literal" ->
            IF top THEN first_pass_push_len(elem.data)
            ELSE estimate_size(<<elem>>, EmptyMap, EmptyMap)

IsReferenceFree(elem) == elem.kind \in {"Opcode", "Literal", "BytesSegment"}

\* the size the claim states for such an element
StatedSize(elem) ==
    CASE elem.kind = "Opcode" -> 1
      [] elem.kind = "BytesSegment" -> Len(elem.data)
      [] elem.kind = "Literal" -> 1 + Max(Len(skip_zeros(elem.data)), 1)

SizedAlike(elem, top) ==
    /\ first_pass_size(elem, top) = StatedSize(elem)
    /\ rewalk_size(elem, EmptyMap, EmptyMap, top) = StatedSize(elem)

\* C26: for every Opcode, Literal and RawData of an assembled tree, the
\* initial pass and the re-walk both add the stated size
C26_PassesAgree ==
    \A c \in callers :
        pc[c] \in {"optimize", "encode", "done"} =>
            \A i \in DOMAIN tree[c] :
                /\ IsReferenceFree(tree[c][i]) => SizedAlike(tree[c][i], TRUE)
                /\ LET w == Walk(tree[c][i].inner)
                   IN \A j \in DOMAIN w :
                        IsReferenceFree(w[j]) => SizedAlike(w[j], FALSE)

(***************************************************************************)
(* C27.  Whenever the resolver returns, every entry of the returned label  *)
(* map records as its reference width the width its final offset needs:    *)
(* the number of bytes of the offset without leading zero bytes, one byte  *)
(* for offset 0.                                                           *)
(***************************************************************************)
\* the number of bytes needed to write value big-endian
RequiredWidth(value) ==
    Max(Len(skip_zeros(to_be_bytes(value, UsizeBytes))), 1)

\* C27: in the returned label map, size_estimate is the width required by
\* offset
C27_WidthOfFinalOffset ==
    \A c \in callers :
        Resolved(c) =>
            \A k \in DOMAIN labels[c] :
                labels[c][k].size_estimate = RequiredWidth(labels[c][k].offset)

C27_Witness ==
    \E c \in callers :
        /\ Resolved(c)
        /\ rounds[c] >= 2
        /\ \E k \in DOMAIN labels[c] :
            /\ labels[c][k].offset > 0
            /\ labels[c][k].size_estimate = 1

(***************************************************************************)
(* C28.  With all Block offsets below 65536, no Block's offset increases   *)
(* from one re-walk round to the next, from the first re-walk on; the      *)
(* resolver returns before the last of its MAX_ITERATIONS rounds and       *)
(* assemble never returns CircularDependency.                              *)
(***************************************************************************)
\* every offset of a label map fits in two bytes
Below65536(lbls) == \A k \in DOMAIN lbls : lbls[k].offset < pow256(1 + 1)

\* a round after the first one moves no Block to a larger offset
NoGrowthStep ==
    \A c \in callers :
        ( /\ pc[c] = "optimize"
          /\ rounds[c] >= 1
          /\ rounds'[c] = rounds[c] + 1
          /\ Below65536(labels[c])
          /\ Below65536(labels'[c]) ) =>
            \A k \in DOMAIN labels[c] :
                /\ Has(labels'[c], k)
                /\ labels'[c][k].offset <= labels[c][k].offset

\* the resolver returns before its last round and never gives up
NeverCircular ==
    \A c \in callers :
        /\ result[c].err.kind # "CircularDependency"
        /\ Resolved(c) => rounds[c] < MAX_ITERATIONS

\* C28: from the first re-walk on no offset increases, and no call ends
\* with CircularDependency
C28_NoOffsetGrowth == [][NoGrowthStep]_vars /\ []NeverCircular

C28_Witness ==
    \E c \in callers :
        /\ rounds[c] >= 2
        /\ pc[c] \in {"optimize", "encode"}
        /\ Below65536(prev_labels[c])
        /\ \E k \in DOMAIN labels[c] :
            labels[c][k].offset < prev_labels[c][k].offset

(***************************************************************************)
(* C29.  Block names and RawData names are two namespaces: a Label is      *)
(* resolved against the Blocks only and a RawDataPtr/RawDataSize against   *)
(* the RawData regions only, a reference to a name of the other kind       *)
(* fails with LabelNotFound, and a Block and a RawData region with one     *)
(* name are both kept.                                                     *)
(***************************************************************************)
\* the names of the top-level elements of one kind
TopNames(elements, kind) ==
    {elements[i].name : i \in {j \in DOMAIN elements : elements[j].kind = kind}}

\* a reference to a name that only an element of the other kind defines
IsCrossReference(t, el) ==
    \/ /\ el.kind = "Label"
       /\ el.name \in RawDataOf(t) /\ el.name \notin BlocksOf(t)
    \/ /\ el.kind \in {"BytesPtr", "BytesSize"}
       /\ el.name \in BlocksOf(t) /\ el.name \notin RawDataOf(t)

\* the label map holds the top-level Blocks and the RawData map the
\* top-level RawData regions, whatever names the other map holds
SeparateMaps ==
    \A c \in callers :
        pc[c] \in {"optimize", "encode", "done"} =>
            /\ DOMAIN labels[c] = TopNames(tree[c], "Segment")
            /\ DOMAIN bytes_map[c] = TopNames(tree[c], "BytesSegment")

\* a reference to a name of the other kind only is not found
CrossReferenceFails ==
    \A c \in callers :
        (Done(c) /\ result[c].err.kind # "CircularDependency") =>
            LET w == Walk(tree[c])
            IN \A i \in DOMAIN w :
                ( /\ IsCrossReference(tree[c], w[i])
                  /\ \A j \in 1..(i - 1) : ~FailsAt(c, w[j]) ) =>
                    result[c] = Err(LabelNotFound(w[i].name))

\* with a name defined as a Block and as a RawData region, a Label pushes
\* the offset the resolver gave the Block and a RawDataSize the length of
\* the region
BothKept ==
    \A c \in callers :
        Success(c) =>
            LET lay == LayoutOf(c)
                rw == LastRewalk(c)
            IN \A i \in DOMAIN lay :
                LET el == lay[i].el
                    both == /\ el.name \in TopNames(tree[c], "Segment")
                            /\ el.name \in TopNames(tree[c], "BytesSegment")
                IN /\ (el.kind = "Label" /\ both) =>
                        \E j \in DOMAIN rw :
                            /\ rw[j].el.kind = "Segment"
                            /\ rw[j].el.name = el.name
                            /\ rw[j].pos = PushedValue(lay[i].out)
                   /\ (el.kind = "BytesSize" /\ both) =>
                        \E j \in DOMAIN lay :
                            /\ lay[j].el.kind = "BytesSegment"
                            /\ lay[j].el.name = el.name
                            /\ Len(lay[j].el.data) = PushedValue(lay[i].out)

\* C29: Blocks and RawData regions are looked up in separate maps
C29_SeparateNamespaces == SeparateMaps /\ CrossReferenceFails /\ BothKept

C29_Witness ==
    \E c \in callers :
        /\ Done(c)
        /\ result[c].err.kind = "LabelNotFound"
        /\ Len(tree[c]) = 3
        /\ tree[c][1].kind = "BytesSegment"
        /\ tree[c][2].kind = "BytesPtr" /\ tree[c][2].name = tree[c][1].name
        /\ tree[c][3].kind = "Label" /\ tree[c][3].name = tree[c][1].name

(***************************************************************************)
(* C30.  The RawData map is written by the initial pass only: a re-walk    *)
(* round leaves every recorded RawData offset and length as it was and     *)
(* neither adds nor removes a name in either map, so the value pushed for  *)
(* a RawDataPtr is the offset the initial pass computed.                   *)
(***************************************************************************)
\* a round changes neither the RawData map nor the names of the label map
FrameStep ==
    \A c \in callers :
        (pc[c] = "optimize" /\ rounds'[c] = rounds[c] + 1) =>
            /\ bytes_map'[c] = bytes_map[c]
            /\ DOMAIN labels'[c] = DOMAIN labels[c]

\* throughout a call the RawData map is the one of the initial pass
InitialRawData ==
    \A c \in callers :
        pc[c] \in {"optimize", "encode", "done"} =>
            bytes_map[c] = first_pass(tree[c]).bytes_map

\* a RawDataPtr pushes the offset recorded by the initial pass
PushedFromInitialPass ==
    \A c \in callers :
        Success(c) =>
            LET lay == LayoutOf(c)
            IN \A i \in DOMAIN lay :
                lay[i].el.kind = "BytesPtr" =>
                    PushedValue(lay[i].out)
                        = first_pass(tree[c]).bytes_map[lay[i].el.name].offset

\* C30: no round writes the RawData map or changes the names of a map
C30_RawDataFrame ==
    [][FrameStep]_vars /\ []InitialRawData /\ []PushedFromInitialPass

C30_Witness ==
    \E c \in callers :
        /\ Resolved(c)
        /\ rounds[c] >= 2
        /\ bytes_map[c] # EmptyMap
        /\ \E k \in DOMAIN labels[c] :
            labels[c][k].offset # first_pass(tree[c]).labels[k].offset

====
